---- MODULE Spec2Model ----
(***************************************************************************)
(* Model of m1kTCPClient (src/src/m1kTCPClient/m1kTCPClient.py): the       *)
(* constructor, the TERMCHAR setter, the transport routine _query with its *)
(* retry loop, and the command methods that consume it.                    *)
(*                                                                         *)
(* Text is a sequence of one-character strings; "LF" and "CR" stand for    *)
(* "\n" and "\r".  Bytes are sequences of integers (UTF-8 code units).     *)
(***************************************************************************)
EXTENDS Integers, Sequences, FiniteSets, TLC

\* ------------------------------------------------------------------ bounds
\* Largest retry count a client is constructed with.
MaxRetries == 2
\* Largest number of times the TERMCHAR setter is invoked on a client.
MaxSets == 1

\* ------------------------------------------------------------------- text
LF == <<"LF">>
CR == <<"CR">>
CRLF == <<"CR", "LF">>
SEMI == <<";">>
ERROR == <<"E", "R", "R", "O", "R">>

\* Terminator strings a client is configured with (constructor or setter).
Terminators == {LF, CRLF, SEMI}

\* What a server may put after its reply text: a terminator, or nothing.
ServerTerms == {<<>>, LF, CRLF}

\* Reply texts a server is scripted with.
Replies ==
  { <<>>, <<"1">>, <<"a", "CR">>, <<"E", "R", "R", "O">>, ERROR,
    ERROR \o <<"a">> }

\* Power line frequencies passed to the constructor.
PlfValues == {50}

\* str.encode(): UTF-8 code unit of each character used by the model.
Code(c) ==
  CASE c = "LF" -> 10
    [] c = "CR" -> 13
    [] c = " " -> 32
    [] c = "0" -> 48
    [] c = "1" -> 49
    [] c = "2" -> 50
    [] c = "5" -> 53
    [] c = "6" -> 54
    [] c = ";" -> 59
    [] c = "E" -> 69
    [] c = "N" -> 78
    [] c = "O" -> 79
    [] c = "R" -> 82
    [] c = "a" -> 97
    [] c = "c" -> 99
    [] c = "d" -> 100
    [] c = "e" -> 101
    [] c = "f" -> 102
    [] c = "i" -> 105
    [] c = "l" -> 108
    [] c = "m" -> 109
    [] c = "n" -> 110
    [] c = "o" -> 111
    [] c = "p" -> 112
    [] c = "r" -> 114
    [] c = "s" -> 115
    [] c = "v" -> 118
    [] c = "w" -> 119
    [] OTHER -> 63

Encode(s) == [i \in DOMAIN s |-> Code(s[i])]

\* str.startswith(prefix)
StartsWith(s, p) == Len(s) >= Len(p) /\ SubSeq(s, 1, Len(p)) = p

\* c in chars
InChars(c, chars) == \E i \in DOMAIN chars : chars[i] = c

\* str.rstrip(chars): drops every trailing character that occurs in chars.
RECURSIVE RStrip(_, _)
RStrip(s, chars) ==
  IF s = <<>> \/ ~InChars(s[Len(s)], chars)
  THEN s
  ELSE RStrip(SubSeq(s, 1, Len(s) - 1), chars)

\* Positions at which an occurrence of nl ends in s.
NlEnds(s, nl) ==
  {j \in 1..Len(s) : j >= Len(nl) /\ SubSeq(s, j - Len(nl) + 1, j) = nl}

\* io.TextIOWrapper(newline=...) accepts only None, "", "\n", "\r", "\r\n".
LegalNewline(t) == t \in {<<>>, LF, CR, CRLF}

\* TextIOWrapper.readline() on a socket file with newline=nl (nl one of
\* "\n", "\r", "\r\n": lines end at nl only, nothing is translated):
\* the text through the first nl; at end of stream whatever was received;
\* a timeout when the peer stays silent without having sent nl.
ReadLine(stream, nl, closed) ==
  LET ends == NlEnds(stream, nl) IN
  IF ends # {}
  THEN [kind |-> "line",
        text |-> SubSeq(stream, 1, CHOOSE j \in ends : \A k \in ends : j <= k)]
  ELSE IF closed
       THEN [kind |-> "eof", text |-> stream]
       ELSE [kind |-> "timeout", text |-> <<>>]

\* str(int) for the numbers the model formats.
Str(n) ==
  CASE n = 50 -> <<"5", "0">>
    [] n = 60 -> <<"6", "0">>
    [] n = 0 -> <<"0">>
    [] n = 1 -> <<"1">>
    [] OTHER -> <<"2">>

\* ast.literal_eval on the texts of the model: a run of digits is a number,
\* anything else is rejected.
IsLiteral(t) == t # <<>> /\ \A i \in DOMAIN t : t[i] \in {"0", "1", "2"}

\* ------------------------------------------------------------- exceptions
Exc(t, d) == [type |-> t, detail |-> d]
None == Exc("None", <<>>)
TransientTypes == {"ConnectionRefusedError", "ConnectionResetError", "timeout"}

NoRes == [kind |-> "none", val |-> <<>>, isNone |-> FALSE, exc |-> None]
Return(v) == [kind |-> "return", val |-> v, isNone |-> FALSE, exc |-> None]
ReturnNone == [kind |-> "return", val |-> <<>>, isNone |-> TRUE, exc |-> None]
Raise(e) == [kind |-> "raise", val |-> <<>>, isNone |-> FALSE, exc |-> e]

NoWire == [set |-> FALSE, reply |-> <<>>, term |-> <<>>]

VARIABLES
  obj,              \* "new" | "constructing" | "ready" | "failed"
  ctorExc,          \* exception the constructor ended with (None if none)
  _TERMCHAR,        \* self._TERMCHAR
  _TERMCHAR_BYTES,  \* self._TERMCHAR_BYTES
  retries,          \* self.retries
  method,           \* the method invoked last, "none" before construction
  nQ,               \* _query calls made by that method
  mres,             \* what the last command method returned or raised
  parsed,           \* the last command method called ast.literal_eval
  pc,               \* position inside _query, "none" outside
  msg,              \* _query's argument
  attempt,          \* loop variable of line 85
  err,              \* local err
  xerr,             \* local _err
  nl,               \* newline mode of the socket file sf
  line,             \* value of sf.readline()
  resp,             \* local resp
  qres,             \* how the last _query call ended
  open,             \* OS connections of this call that are open
  payload,          \* bytes of the last sendall
  wire,             \* what the server sent on the attempt that read a line
  outs,             \* outcome of each attempt of this call, in order
  nConn,            \* connects made by this call
  nSleep,           \* time.sleep(retry_delay) calls made by this call
  nWarn,            \* warnings emitted by this call
  term0,            \* terminator in effect when this call started
  bytes0,           \* its cached byte form when this call started
  tchg,             \* the TERMCHAR setter ran during this call
  nSets,            \* invocations of the TERMCHAR setter so far
  spc,              \* position inside the TERMCHAR setter
  sarg,             \* the setter's argument
  four_wire,        \* argument of configure_channel_settings, <<>> for None
  v_range,          \* argument of configure_channel_settings, <<>> for None
  default,          \* argument of configure_channel_settings, <<>> for None
  cpc,              \* position inside configure_channel_settings
  other             \* frame of a _query call in a second execution context

cfgVars == <<obj, ctorExc, retries>>
termVars == <<_TERMCHAR, _TERMCHAR_BYTES>>
methVars == <<method, nQ, mres, parsed>>
callVars == <<pc, msg, attempt, err, xerr, nl, line, resp, qres, open,
              payload, wire, outs, nConn, nSleep, nWarn, term0, bytes0>>
setVars == <<nSets, spc, sarg>>
ccsVars == <<four_wire, v_range, default, cpc>>
vars == <<cfgVars, termVars, methVars, callVars, tchg, setVars, ccsVars,
          other>>

\* --------------------------------------------------------------- messages
MsgPlf(v) == <<"p", "l", "f", " ">> \o Str(v)
MsgIdn == <<"i", "d", "n">>
MsgMeas(chunk) ==
  <<"m", "e", "a", "s", " ", "N", "o", "n", "e", " ", "d", "c", " ">>
    \o Str(IF chunk THEN 1 ELSE 0)
MsgLlvs == <<"l", "l", "v", "s", " ">> \o Str(0) \o <<" ">> \o Str(1)
             \o <<" ">> \o Str(2)

MsgFw(fw) ==
  <<"f", "w", " ">> \o Str(IF fw THEN 1 ELSE 0) \o <<" ", "N", "o", "n", "e">>
MsgVr(vr) == <<"v", "r", " ">> \o Str(vr) \o <<" ", "N", "o", "n", "e">>
MsgDef(d) ==
  <<"d", "e", "f", " ">> \o Str(IF d THEN 1 ELSE 0)
    \o <<" ", "N", "o", "n", "e">>

\* Argument values of configure_channel_settings: <<>> is None, <<v>> is v.
FourWireArgs == {<<>>, <<TRUE>>}
VRangeArgs == {<<>>, <<5>>}
DefaultArgs == {<<>>, <<FALSE>>}

\* Command methods invoked on a constructed client, with their messages.
MethodMsgs ==
  { <<"idn", MsgIdn>>, <<"measure", MsgMeas(FALSE)>>,
    <<"measure", MsgMeas(TRUE)>>, <<"_low_level_voltage_sweep", MsgLlvs>> }

\* Results of a command method.
NoMRes == [kind |-> "nothing", text |-> <<>>, num |-> 0, exc |-> None]
MText(t) == [kind |-> "text", text |-> t, num |-> 0, exc |-> None]
MNum(n) == [kind |-> "number", text |-> <<>>, num |-> n, exc |-> None]
MNone == [kind |-> "None", text |-> <<>>, num |-> 0, exc |-> None]
MRaise(e) == [kind |-> "raise", text |-> <<>>, num |-> 0, exc |-> e]

Digit(c) == CASE c = "0" -> 0 [] c = "1" -> 1 [] OTHER -> 2

RECURSIVE LiteralValue(_)
LiteralValue(t) ==
  IF t = <<>> THEN 0
  ELSE 10 * LiteralValue(SubSeq(t, 1, Len(t) - 1)) + Digit(t[Len(t)])

\* ------------------------------------------------------------------- Init
Init ==
  /\ obj = "new"
  /\ ctorExc = None
  /\ _TERMCHAR = <<>>
  /\ _TERMCHAR_BYTES = <<>>
  /\ retries = 0
  /\ method = "none"
  /\ nQ = 0
  /\ mres = NoMRes
  /\ parsed = FALSE
  /\ pc = "none"
  /\ msg = <<>>
  /\ attempt = 0
  /\ err = None
  /\ xerr = None
  /\ nl = <<>>
  /\ line = <<>>
  /\ resp = <<>>
  /\ qres = NoRes
  /\ open = 0
  /\ payload = <<>>
  /\ wire = NoWire
  /\ outs = <<>>
  /\ nConn = 0
  /\ nSleep = 0
  /\ nWarn = 0
  /\ term0 = <<>>
  /\ bytes0 = <<>>
  /\ tchg = FALSE
  /\ nSets = 0
  /\ spc = "idle"
  /\ sarg = <<>>
  /\ four_wire = <<>>
  /\ v_range = <<>>
  /\ default = <<>>
  /\ cpc = "idle"
  /\ other = [pc |-> "none", msg |-> <<>>, attempt |-> 0, err |-> None,
              xerr |-> None, nl |-> <<>>, line |-> <<>>, resp |-> <<>>,
              qres |-> NoRes, open |-> 0, outs |-> <<>>]

\* Entry of _query(m) (line 84): fresh locals; t and b are the terminator
\* and its byte form in effect.
StartQuery(m, t, b) ==
  /\ pc' = "for"
  /\ msg' = m
  /\ attempt' = 0
  /\ err' = None
  /\ xerr' = None
  /\ nl' = <<>>
  /\ line' = <<>>
  /\ resp' = <<>>
  /\ qres' = NoRes
  /\ open' = 0
  /\ payload' = <<>>
  /\ wire' = NoWire
  /\ outs' = <<>>
  /\ nConn' = 0
  /\ nSleep' = 0
  /\ nWarn' = 0
  /\ term0' = t
  /\ bytes0' = b
  /\ tchg' = FALSE

\* __init__ (lines 34-42): set the fields, then call _query("plf <plf>").
Construct(T, r, plf) ==
  /\ obj = "new"
  /\ obj' = "constructing"
  /\ _TERMCHAR' = T
  /\ _TERMCHAR_BYTES' = Encode(T)
  /\ retries' = r
  /\ method' = "__init__"
  /\ nQ' = 1
  /\ StartQuery(MsgPlf(plf), T, Encode(T))
  /\ UNCHANGED <<ctorExc, mres, parsed, setVars, other, ccsVars>>

\* A command method is invoked and calls _query with its message.
Call(m, text) ==
  /\ obj = "ready"
  /\ pc = "none"
  /\ cpc = "idle"
  /\ method' = m
  /\ nQ' = 1
  /\ mres' = NoMRes
  /\ parsed' = FALSE
  /\ StartQuery(text, _TERMCHAR, _TERMCHAR_BYTES)
  /\ UNCHANGED <<cfgVars, termVars, setVars, other, ccsVars>>

\* TERMCHAR setter, line 63.
SetTermchar(T) ==
  /\ obj = "ready"
  /\ spc = "idle"
  /\ nSets < MaxSets
  /\ nSets' = nSets + 1
  /\ _TERMCHAR' = T
  /\ sarg' = T
  /\ spc' = "bytes"
  /\ tchg' = (tchg \/ pc \notin {"none", "done"})
  /\ UNCHANGED <<cfgVars, _TERMCHAR_BYTES, methVars, ccsVars, other, callVars>>

\* SetTermcharBytes with the cached bytes left as they were.
SetTermcharBytesStale ==
  /\ spc = "bytes"
  /\ _TERMCHAR_BYTES' = _TERMCHAR_BYTES
  /\ spc' = "idle"
  /\ sarg' = <<>>
  /\ tchg' = (tchg \/ pc \notin {"none", "done"})
  /\ UNCHANGED <<cfgVars, _TERMCHAR, nSets, methVars, ccsVars, other, callVars>>

\* TERMCHAR setter, line 64.
SetTermcharBytes ==
  /\ spc = "bytes"
  /\ _TERMCHAR_BYTES' = Encode(sarg)
  /\ spc' = "idle"
  /\ sarg' = <<>>
  /\ tchg' = (tchg \/ pc \notin {"none", "done"})
  /\ UNCHANGED <<cfgVars, _TERMCHAR, nSets, methVars, ccsVars, other, callVars>>

\* ----------------------------------------------------------------- _query
\* Outcomes the network can give to connect, to sendall and to the read.
ConnectOutcomes == {"ok", "refused", "timeout", "unreachable"}
SendOutcomes == {"ok", "reset", "timeout", "pipe"}

\* The exception a failed socket operation raises.
ExcOf(o) ==
  CASE o = "refused" -> Exc("ConnectionRefusedError", <<>>)
    [] o = "reset" -> Exc("ConnectionResetError", <<>>)
    [] o = "timeout" -> Exc("timeout", <<>>)
    [] o = "pipe" -> Exc("BrokenPipeError", <<>>)
    [] OTHER -> Exc("OSError", <<>>)

\* Except with a handler that catches every exception.
ExceptCatchesAll(e) ==
  /\ xerr' = e
  /\ pc' = "check"
  /\ qres' = qres

\* Lines 100-105: the three except clauses bind _err and fall through to
\* line 107; any other exception leaves _query.
Except(e) ==
  IF e.type \in TransientTypes
  THEN /\ xerr' = e
       /\ pc' = "check"
       /\ qres' = qres
  ELSE /\ xerr' = xerr
       /\ pc' = "done"
       /\ qres' = Raise(e)

\* ForNext with a loop body that runs at least once.
ForNextAtLeastOnce ==
  /\ pc = "for"
  /\ IF attempt < retries \/ attempt = 0
     THEN /\ attempt' = attempt + 1
          /\ pc' = "connect"
     ELSE /\ attempt' = attempt
          /\ pc' = "after"
  /\ UNCHANGED <<cfgVars, termVars, methVars, setVars, other, ccsVars, tchg, msg, err, xerr,
                 nl, line, resp, qres, open, payload, wire, outs, nConn,
                 nSleep, nWarn, term0, bytes0>>

\* ForNext with the loop running one attempt too many.
ForNextOneMore ==
  /\ pc = "for"
  /\ IF attempt <= retries
     THEN /\ attempt' = attempt + 1
          /\ pc' = "connect"
     ELSE /\ attempt' = attempt
          /\ pc' = "after"
  /\ UNCHANGED <<cfgVars, termVars, methVars, setVars, other, ccsVars, tchg, msg, err, xerr,
                 nl, line, resp, qres, open, payload, wire, outs, nConn,
                 nSleep, nWarn, term0, bytes0>>

\* Line 85: for attempt in range(1, self.retries + 1).
ForNext ==
  /\ pc = "for"
  /\ IF attempt < retries
     THEN /\ attempt' = attempt + 1
          /\ pc' = "connect"
     ELSE /\ attempt' = attempt
          /\ pc' = "after"
  /\ UNCHANGED <<cfgVars, termVars, methVars, setVars, other, ccsVars, tchg, msg, err, xerr,
                 nl, line, resp, qres, open, payload, wire, outs, nConn,
                 nSleep, nWarn, term0, bytes0>>

\* Lines 87-90: create the socket, set its timeout, connect.  A failed
\* connect leaves the with block, which closes the socket.
Connect(o) ==
  /\ pc = "connect"
  /\ nConn' = nConn + 1
  /\ IF o = "ok"
     THEN /\ open' = open + 1
          /\ pc' = "send"
          /\ UNCHANGED <<xerr, qres, outs>>
     ELSE /\ open' = open
          /\ outs' = Append(outs, o)
          /\ Except(ExcOf(o))
  /\ UNCHANGED <<cfgVars, termVars, methVars, setVars, other, ccsVars, tchg, msg, attempt,
                 err, nl, line, resp, payload, wire, nSleep, nWarn, term0,
                 bytes0>>

\* Line 92: s.sendall(msg.encode() + self.TERMCHAR_BYTES).
Send(o) ==
  /\ pc = "send"
  /\ IF o = "ok"
     THEN /\ payload' = Encode(msg) \o _TERMCHAR_BYTES
          /\ pc' = "makefile"
          /\ UNCHANGED <<xerr, qres, outs, open>>
     ELSE /\ payload' = payload
          /\ open' = open - 1
          /\ outs' = Append(outs, o)
          /\ Except(ExcOf(o))
  /\ UNCHANGED <<cfgVars, termVars, methVars, setVars, other, ccsVars, tchg, msg, attempt,
                 err, nl, line, resp, wire, nConn, nSleep, nWarn, term0,
                 bytes0>>

\* Line 93: s.makefile("r", newline=self.TERMCHAR).  An illegal newline
\* makes TextIOWrapper raise ValueError after makefile has taken an I/O
\* reference on the socket: s.close() in the with exit then only marks the
\* socket closed, and the connection stays open until the abandoned file
\* object is collected, which may be before or after _query has raised.
Makefile ==
  /\ pc = "makefile"
  /\ IF LegalNewline(_TERMCHAR)
     THEN /\ nl' = _TERMCHAR
          /\ pc' = "readline"
          /\ UNCHANGED <<qres, outs, open>>
     ELSE /\ nl' = nl
          /\ pc' = "done"
          /\ qres' = Raise(Exc("ValueError", <<>>))
          /\ outs' = Append(outs, "illegal")
          /\ open' \in {open - 1, open}
  /\ UNCHANGED <<cfgVars, termVars, methVars, setVars, other, ccsVars, tchg, msg, attempt,
                 err, xerr, line, resp, payload, wire, nConn, nSleep, nWarn,
                 term0, bytes0>>

\* The abandoned file object of a failed makefile is collected.
Collect ==
  /\ pc \in {"done", "none"}
  /\ open > 0
  /\ open' = 0
  /\ UNCHANGED <<cfgVars, termVars, methVars, setVars, other, ccsVars, tchg, pc, msg, attempt,
                 err, xerr, nl, line, resp, qres, payload, wire, outs, nConn,
                 nSleep, nWarn, term0, bytes0>>

\* Line 94, sf.readline(): the server sends reply followed by st, and then
\* closes the connection or keeps it open.
Readline(reply, st, closed) ==
  /\ pc = "readline"
  /\ LET r == ReadLine(reply \o st, nl, closed) IN
     IF r.kind = "timeout"
     THEN /\ open' = open - 1
          /\ outs' = Append(outs, "timeout")
          /\ Except(ExcOf("timeout"))
          /\ UNCHANGED <<line, wire>>
     ELSE /\ line' = r.text
          /\ wire' = [set |-> TRUE, reply |-> reply, term |-> st]
          /\ outs' = Append(outs, IF r.kind = "line" THEN "reply" ELSE "eof")
          /\ pc' = "rstrip"
          /\ UNCHANGED <<xerr, qres, open>>
  /\ UNCHANGED <<cfgVars, termVars, methVars, setVars, other, ccsVars, tchg, msg, attempt,
                 err, nl, resp, payload, nConn, nSleep, nWarn, term0, bytes0>>

\* Line 94, sf.readline(): the peer resets the connection instead.
ReadlineReset ==
  /\ pc = "readline"
  /\ open' = open - 1
  /\ outs' = Append(outs, "reset")
  /\ Except(ExcOf("reset"))
  /\ UNCHANGED <<cfgVars, termVars, methVars, setVars, other, ccsVars, tchg, msg, attempt,
                 err, nl, line, resp, payload, wire, nConn, nSleep, nWarn,
                 term0, bytes0>>

\* Line 94, .rstrip(self.TERMCHAR), then both with blocks exit and close
\* the socket file and the socket.
Rstrip ==
  /\ pc = "rstrip"
  /\ resp' = RStrip(line, _TERMCHAR)
  /\ open' = open - 1
  /\ pc' = "classify"
  /\ UNCHANGED <<cfgVars, termVars, methVars, setVars, other, ccsVars, tchg, msg, attempt,
                 err, xerr, nl, line, qres, payload, wire, outs, nConn,
                 nSleep, nWarn, term0, bytes0>>

\* Classify with the error detail cut down to the sentinel.
ClassifyTruncated ==
  /\ pc = "classify"
  /\ qres' = IF StartsWith(resp, ERROR)
             THEN Raise(Exc("RuntimeError", ERROR))
             ELSE Return(resp)
  /\ pc' = "done"
  /\ UNCHANGED <<cfgVars, termVars, methVars, setVars, other, ccsVars, tchg, msg, attempt,
                 err, xerr, nl, line, resp, open, payload, wire, outs, nConn,
                 nSleep, nWarn, term0, bytes0>>

\* Lines 96-99: RuntimeError(resp) is none of the caught kinds.
Classify ==
  /\ pc = "classify"
  /\ qres' = IF StartsWith(resp, ERROR)
             THEN Raise(Exc("RuntimeError", resp))
             ELSE Return(resp)
  /\ pc' = "done"
  /\ UNCHANGED <<cfgVars, termVars, methVars, setVars, other, ccsVars, tchg, msg, attempt,
                 err, xerr, nl, line, resp, open, payload, wire, outs, nConn,
                 nSleep, nWarn, term0, bytes0>>

\* Check with the warning emitted on the last attempt too.
CheckWarnsAlways ==
  /\ pc = "check"
  /\ IF attempt = retries
     THEN /\ err' = xerr
          /\ nWarn' = nWarn + 1
     ELSE /\ err' = err
          /\ nWarn' = nWarn + 1
  /\ pc' = "sleep"
  /\ UNCHANGED <<cfgVars, termVars, methVars, setVars, other, ccsVars, tchg, msg, attempt,
                 xerr, nl, line, resp, qres, open, payload, wire, outs,
                 nConn, nSleep, term0, bytes0>>

\* Check with the first error remembered instead of the last.
CheckKeepsFirst ==
  /\ pc = "check"
  /\ err' = IF err = None THEN xerr ELSE err
  /\ nWarn' = IF attempt = retries THEN nWarn ELSE nWarn + 1
  /\ pc' = "sleep"
  /\ UNCHANGED <<cfgVars, termVars, methVars, setVars, other, ccsVars, tchg, msg, attempt,
                 xerr, nl, line, resp, qres, open, payload, wire, outs,
                 nConn, nSleep, term0, bytes0>>

\* Check with the loop continuing at once, without the delay of line 115.
CheckNoSleep ==
  /\ pc = "check"
  /\ IF attempt = retries
     THEN /\ err' = xerr
          /\ nWarn' = nWarn
     ELSE /\ err' = err
          /\ nWarn' = nWarn + 1
  /\ pc' = "for"
  /\ UNCHANGED <<cfgVars, termVars, methVars, setVars, other, ccsVars, tchg, msg, attempt,
                 xerr, nl, line, resp, qres, open, payload, wire, outs, nConn,
                 nSleep, term0, bytes0>>

\* Lines 107-113: remember the error on the last attempt, warn otherwise.
Check ==
  /\ pc = "check"
  /\ IF attempt = retries
     THEN /\ err' = xerr
          /\ nWarn' = nWarn
     ELSE /\ err' = err
          /\ nWarn' = nWarn + 1
  /\ pc' = "sleep"
  /\ UNCHANGED <<cfgVars, termVars, methVars, setVars, other, ccsVars, tchg, msg, attempt,
                 xerr, nl, line, resp, qres, open, payload, wire, outs, nConn,
                 nSleep, term0, bytes0>>

\* Line 115: time.sleep(self.retry_delay), at the end of the loop body.
Sleep ==
  /\ pc = "sleep"
  /\ nSleep' = nSleep + 1
  /\ pc' = "for"
  /\ UNCHANGED <<cfgVars, termVars, methVars, setVars, other, ccsVars, tchg, msg, attempt,
                 err, xerr, nl, line, resp, qres, open, payload, wire, outs,
                 nConn, nWarn, term0, bytes0>>

\* AfterLoop inside an outer loop that starts the attempts over.
AfterLoopRestarts ==
  /\ pc = "after"
  /\ qres' = qres
  /\ pc' = "for"
  /\ UNCHANGED <<cfgVars, termVars, methVars, setVars, other, ccsVars, tchg, msg, attempt,
                 err, xerr, nl, line, resp, open, payload, wire, outs, nConn,
                 nSleep, nWarn, term0, bytes0>>

\* AfterLoop with the remembered error dropped.
AfterLoopNoRaise ==
  /\ pc = "after"
  /\ qres' = ReturnNone
  /\ pc' = "done"
  /\ UNCHANGED <<cfgVars, termVars, methVars, setVars, other, ccsVars, tchg, msg, attempt,
                 err, xerr, nl, line, resp, open, payload, wire, outs, nConn,
                 nSleep, nWarn, term0, bytes0>>

\* Lines 117-118, after the loop; falling off the end returns None.
AfterLoop ==
  /\ pc = "after"
  /\ qres' = IF err # None THEN Raise(err) ELSE ReturnNone
  /\ pc' = "done"
  /\ UNCHANGED <<cfgVars, termVars, methVars, setVars, other, ccsVars, tchg, msg, attempt,
                 err, xerr, nl, line, resp, open, payload, wire, outs, nConn,
                 nSleep, nWarn, term0, bytes0>>

\* --------------------------------------------------- return to the caller
\* The locals of _query go with its frame, and with them what was observed
\* of the call; how it ended (qres) is what the caller holds.
FrameGone ==
  /\ msg' = <<>>
  /\ attempt' = 0
  /\ err' = None
  /\ xerr' = None
  /\ nl' = <<>>
  /\ line' = <<>>
  /\ resp' = <<>>
  /\ payload' = <<>>
  /\ wire' = NoWire
  /\ outs' = <<>>
  /\ nConn' = 0
  /\ nSleep' = 0
  /\ nWarn' = 0
  /\ term0' = <<>>
  /\ bytes0' = <<>>
  /\ tchg' = FALSE

\* InitReturn with the failure of the query swallowed.
InitReturnSwallows ==
  /\ pc = "done"
  /\ method = "__init__"
  /\ obj' = "ready"
  /\ ctorExc' = None
  /\ pc' = "none"
  /\ FrameGone
  /\ UNCHANGED <<retries, termVars, method, nQ, mres, parsed, setVars, other, ccsVars, qres, open>>

\* Line 42: __init__ ends when its _query ends; an exception leaves the
\* constructor and no object is bound.
InitReturn ==
  /\ pc = "done"
  /\ method = "__init__"
  /\ IF qres.kind = "raise"
     THEN /\ obj' = "failed"
          /\ ctorExc' = qres.exc
     ELSE /\ obj' = "ready"
          /\ ctorExc' = None
  /\ pc' = "none"
  /\ FrameGone
  /\ UNCHANGED <<retries, termVars, method, nQ, mres, parsed, setVars, other, ccsVars, qres, open>>

\* Line 199: idn returns the response unparsed.
IdnReturn ==
  /\ pc = "done"
  /\ method = "idn"
  /\ mres' = IF qres.kind = "raise" THEN MRaise(qres.exc)
             ELSE IF qres.isNone THEN MNone
             ELSE MText(qres.val)
  /\ pc' = "none"
  /\ FrameGone
  /\ UNCHANGED <<cfgVars, termVars, method, nQ, parsed, setVars, other, ccsVars, qres, open>>

\* AnswerResult with the emptiness test admitting the empty answer.
AnswerResultParsesEmpty(answer) ==
  IF answer.kind = "raise" THEN MRaise(answer.exc)
  ELSE IF answer.isNone THEN MRaise(Exc("TypeError", <<>>))
  ELSE IF Len(answer.val) >= 0
       THEN IF IsLiteral(answer.val)
            THEN MNum(LiteralValue(answer.val))
            ELSE MRaise(Exc("SyntaxError", <<>>))
       ELSE MNone

\* Lines 353-357 and 421-425: an empty answer is "no data", anything else
\* goes through ast.literal_eval; len(None) is a TypeError.
AnswerResult(answer) ==
  IF answer.kind = "raise" THEN MRaise(answer.exc)
  ELSE IF answer.isNone THEN MRaise(Exc("TypeError", <<>>))
  ELSE IF Len(answer.val) > 0
       THEN IF IsLiteral(answer.val)
            THEN MNum(LiteralValue(answer.val))
            ELSE MRaise(Exc("SyntaxError", <<>>))
       ELSE MNone

\* ast.literal_eval is reached (lines 354 and 422).
AnswerParsed(answer) ==
  answer.kind = "return" /\ ~answer.isNone /\ Len(answer.val) > 0

\* measure, lines 349-357.
MeasureReturn ==
  /\ pc = "done"
  /\ method = "measure"
  /\ mres' = AnswerResult(qres)
  /\ parsed' = AnswerParsed(qres)
  /\ pc' = "none"
  /\ FrameGone
  /\ UNCHANGED <<cfgVars, termVars, method, nQ, setVars, other, ccsVars, qres, open>>

\* _low_level_voltage_sweep, lines 420-425.
LlvsReturn ==
  /\ pc = "done"
  /\ method = "_low_level_voltage_sweep"
  /\ mres' = AnswerResult(qres)
  /\ parsed' = AnswerParsed(qres)
  /\ pc' = "none"
  /\ FrameGone
  /\ UNCHANGED <<cfgVars, termVars, method, nQ, setVars, other, ccsVars, qres, open>>

\* ------------------------------------------------------------------- Next
\* configure_channel_settings, lines 247-253: the call binds its arguments.
ConfigureChannelSettings(fw, vr, df) ==
  /\ obj = "ready"
  /\ pc = "none"
  /\ cpc = "idle"
  /\ method' = "configure_channel_settings"
  /\ nQ' = 0
  /\ mres' = NoMRes
  /\ parsed' = FALSE
  /\ four_wire' = fw
  /\ v_range' = vr
  /\ default' = df
  /\ cpc' = "fw"
  /\ UNCHANGED <<cfgVars, termVars, setVars, other, callVars, tchg>>

\* Lines 268-269: if four_wire is not None, query "fw ...".
CcsFourWire ==
  /\ cpc = "fw"
  /\ pc = "none"
  /\ IF four_wire # <<>>
     THEN /\ StartQuery(MsgFw(four_wire[1]), _TERMCHAR, _TERMCHAR_BYTES)
          /\ nQ' = nQ + 1
     ELSE UNCHANGED <<callVars, tchg, nQ>>
  /\ cpc' = "vr"
  /\ UNCHANGED <<cfgVars, termVars, setVars, other, method, mres, parsed,
                 four_wire, v_range, default>>

\* CcsVRange as an elif of the four_wire test.
CcsVRangeElif ==
  /\ cpc = "vr"
  /\ pc = "none"
  /\ IF v_range # <<>> /\ four_wire = <<>>
     THEN /\ StartQuery(MsgVr(v_range[1]), _TERMCHAR, _TERMCHAR_BYTES)
          /\ nQ' = nQ + 1
     ELSE UNCHANGED <<callVars, tchg, nQ>>
  /\ cpc' = "def"
  /\ UNCHANGED <<cfgVars, termVars, setVars, other, method, mres, parsed,
                 four_wire, v_range, default>>

\* Lines 271-272: if v_range is not None, query "vr ...".
CcsVRange ==
  /\ cpc = "vr"
  /\ pc = "none"
  /\ IF v_range # <<>>
     THEN /\ StartQuery(MsgVr(v_range[1]), _TERMCHAR, _TERMCHAR_BYTES)
          /\ nQ' = nQ + 1
     ELSE UNCHANGED <<callVars, tchg, nQ>>
  /\ cpc' = "def"
  /\ UNCHANGED <<cfgVars, termVars, setVars, other, method, mres, parsed,
                 four_wire, v_range, default>>

\* Lines 274-275: if default is not None, query "def ...".
CcsDefault ==
  /\ cpc = "def"
  /\ pc = "none"
  /\ IF default # <<>>
     THEN /\ StartQuery(MsgDef(default[1]), _TERMCHAR, _TERMCHAR_BYTES)
          /\ nQ' = nQ + 1
     ELSE UNCHANGED <<callVars, tchg, nQ>>
  /\ cpc' = "end"
  /\ UNCHANGED <<cfgVars, termVars, setVars, other, method, mres, parsed,
                 four_wire, v_range, default>>

\* A _query of configure_channel_settings ends: its value is dropped, its
\* exception leaves the method and the argument bindings go with the frame.
CcsQueryReturn ==
  /\ pc = "done"
  /\ method = "configure_channel_settings"
  /\ IF qres.kind = "raise"
     THEN /\ mres' = MRaise(qres.exc)
          /\ cpc' = "idle"
          /\ four_wire' = <<>>
          /\ v_range' = <<>>
          /\ default' = <<>>
     ELSE UNCHANGED <<mres, ccsVars>>
  /\ pc' = "none"
  /\ FrameGone
  /\ UNCHANGED <<cfgVars, termVars, method, nQ, parsed, setVars, other, qres, open>>

\* The method falls off its end after line 275 and returns None.
CcsEnd ==
  /\ cpc = "end"
  /\ pc = "none"
  /\ mres' = MNone
  /\ cpc' = "idle"
  /\ four_wire' = <<>>
  /\ v_range' = <<>>
  /\ default' = <<>>
  /\ UNCHANGED <<cfgVars, termVars, setVars, other, method, nQ, parsed, callVars,
                 tchg>>

Next ==
  \/ \E T \in Terminators, r \in (-1)..MaxRetries, f \in PlfValues :
       Construct(T, r, f)
  \/ \E mm \in MethodMsgs : Call(mm[1], mm[2])
  \/ \E T \in Terminators : SetTermchar(T)
  \/ SetTermcharBytes
  \/ ForNext
  \/ \E o \in ConnectOutcomes : Connect(o)
  \/ \E o \in SendOutcomes : Send(o)
  \/ Makefile
  \/ Collect
  \/ \E reply \in Replies, st \in ServerTerms, closed \in BOOLEAN :
       Readline(reply, st, closed)
  \/ ReadlineReset
  \/ Rstrip
  \/ Classify
  \/ Check
  \/ Sleep
  \/ AfterLoop
  \/ InitReturn
  \/ IdnReturn
  \/ MeasureReturn
  \/ LlvsReturn

Spec == Init /\ [][Next]_vars

\* The steps of a _query call in progress, lines 85-118.
QueryStep ==
  \/ ForNext
  \/ \E o \in ConnectOutcomes : Connect(o)
  \/ \E o \in SendOutcomes : Send(o)
  \/ Makefile
  \/ \E reply \in Replies, st \in ServerTerms, closed \in BOOLEAN :
       Readline(reply, st, closed)
  \/ ReadlineReset
  \/ Rstrip
  \/ Classify
  \/ Check
  \/ Sleep
  \/ AfterLoop

\* A client whose terminator stays as constructed, used through its command
\* methods, configure_channel_settings among them.
NextCmd ==
  \/ \E T \in Terminators, r \in (-1)..MaxRetries, f \in PlfValues :
       Construct(T, r, f)
  \/ \E mm \in MethodMsgs : Call(mm[1], mm[2])
  \/ \E fw \in FourWireArgs, vr \in VRangeArgs, df \in DefaultArgs :
       ConfigureChannelSettings(fw, vr, df)
  \/ CcsFourWire
  \/ CcsVRange
  \/ CcsDefault
  \/ CcsQueryReturn
  \/ CcsEnd
  \/ QueryStep
  \/ Collect
  \/ InitReturn
  \/ IdnReturn
  \/ MeasureReturn
  \/ LlvsReturn

SpecCmd == Init /\ [][NextCmd]_vars

\* Every connect, send and receive ends (with a result or an I/O timeout),
\* and so does every other step of the loop: a call in progress is not
\* left waiting forever.
SpecFair == SpecCmd /\ WF_vars(QueryStep)

\* Every variable stays within its type.
\* ------------------------------------------- a second execution context
\* _query running in another execution context on the same client.  Its
\* frame (msg and the locals attempt, err, _err, sf's newline, the line
\* read, resp, its socket) is the record other; self is shared.
OtherIdle ==
  [pc |-> "none", msg |-> <<>>, attempt |-> 0, err |-> None, xerr |-> None,
   nl |-> <<>>, line |-> <<>>, resp |-> <<>>, qres |-> NoRes, open |-> 0,
   outs |-> <<>>]

\* Lines 71-84: the other context calls _query(msg).
OtherQuery(m) ==
  /\ obj = "ready"
  /\ other.pc = "none"
  /\ other' = [OtherIdle EXCEPT !.pc = "for", !.msg = m]
  /\ UNCHANGED <<cfgVars, termVars, methVars, callVars, tchg, setVars,
                 ccsVars>>

\* Lines 100-105 in the other context, on its frame f.
OtherExcept(f, e) ==
  IF e.type \in TransientTypes
  THEN [f EXCEPT !.xerr = e, !.pc = "check"]
  ELSE [f EXCEPT !.pc = "done", !.qres = Raise(e)]

\* Line 85 in the other context.
OtherForNext ==
  /\ other.pc = "for"
  /\ other' = IF other.attempt < retries
              THEN [other EXCEPT !.attempt = @ + 1, !.pc = "connect"]
              ELSE [other EXCEPT !.pc = "after"]
  /\ UNCHANGED <<cfgVars, termVars, methVars, callVars, tchg, setVars,
                 ccsVars>>

\* Lines 87-90 in the other context.
OtherConnect(o) ==
  /\ other.pc = "connect"
  /\ other' = IF o = "ok"
              THEN [other EXCEPT !.open = @ + 1, !.pc = "send"]
              ELSE OtherExcept([other EXCEPT !.outs = Append(@, o)],
                               ExcOf(o))
  /\ UNCHANGED <<cfgVars, termVars, methVars, callVars, tchg, setVars,
                 ccsVars>>

\* Line 92 in the other context.
OtherSend(o) ==
  /\ other.pc = "send"
  /\ other' = IF o = "ok"
              THEN [other EXCEPT !.pc = "makefile"]
              ELSE OtherExcept([other EXCEPT !.open = @ - 1,
                                             !.outs = Append(@, o)],
                               ExcOf(o))
  /\ UNCHANGED <<cfgVars, termVars, methVars, callVars, tchg, setVars,
                 ccsVars>>

\* Line 93 in the other context; the connection of a failed makefile is
\* released as described at Makefile.
OtherMakefile ==
  /\ other.pc = "makefile"
  /\ IF LegalNewline(_TERMCHAR)
     THEN other' = [other EXCEPT !.nl = _TERMCHAR, !.pc = "readline"]
     ELSE \E k \in {other.open - 1, other.open} :
            other' = [other EXCEPT !.pc = "done",
                                   !.qres = Raise(Exc("ValueError", <<>>)),
                                   !.outs = Append(@, "illegal"),
                                   !.open = k]
  /\ UNCHANGED <<cfgVars, termVars, methVars, callVars, tchg, setVars,
                 ccsVars>>

\* Line 94, sf.readline(), in the other context.
OtherReadline(reply, st, closed) ==
  /\ other.pc = "readline"
  /\ LET r == ReadLine(reply \o st, other.nl, closed) IN
     other' = IF r.kind = "timeout"
              THEN OtherExcept([other EXCEPT !.open = @ - 1,
                                             !.outs = Append(@, "timeout")],
                               ExcOf("timeout"))
              ELSE [other EXCEPT
                      !.line = r.text,
                      !.outs = Append(@, IF r.kind = "line" THEN "reply"
                                         ELSE "eof"),
                      !.pc = "rstrip"]
  /\ UNCHANGED <<cfgVars, termVars, methVars, callVars, tchg, setVars,
                 ccsVars>>

\* Line 94 in the other context: the peer resets the connection.
OtherReadlineReset ==
  /\ other.pc = "readline"
  /\ other' = OtherExcept([other EXCEPT !.open = @ - 1,
                                        !.outs = Append(@, "reset")],
                          ExcOf("reset"))
  /\ UNCHANGED <<cfgVars, termVars, methVars, callVars, tchg, setVars,
                 ccsVars>>

\* Line 94, .rstrip(self.TERMCHAR), and the with exits, in the other
\* context.
OtherRstrip ==
  /\ other.pc = "rstrip"
  /\ other' = [other EXCEPT !.resp = RStrip(other.line, _TERMCHAR),
                            !.open = @ - 1,
                            !.pc = "classify"]
  /\ UNCHANGED <<cfgVars, termVars, methVars, callVars, tchg, setVars,
                 ccsVars>>

\* Lines 96-99 in the other context.
OtherClassify ==
  /\ other.pc = "classify"
  /\ other' = [other EXCEPT
                 !.qres = IF StartsWith(other.resp, ERROR)
                          THEN Raise(Exc("RuntimeError", other.resp))
                          ELSE Return(other.resp),
                 !.pc = "done"]
  /\ UNCHANGED <<cfgVars, termVars, methVars, callVars, tchg, setVars,
                 ccsVars>>

\* Lines 107-113 in the other context.
OtherCheck ==
  /\ other.pc = "check"
  /\ other' = IF other.attempt = retries
              THEN [other EXCEPT !.err = other.xerr, !.pc = "sleep"]
              ELSE [other EXCEPT !.pc = "sleep"]
  /\ UNCHANGED <<cfgVars, termVars, methVars, callVars, tchg, setVars,
                 ccsVars>>

\* Line 115 in the other context.
OtherSleep ==
  /\ other.pc = "sleep"
  /\ other' = [other EXCEPT !.pc = "for"]
  /\ UNCHANGED <<cfgVars, termVars, methVars, callVars, tchg, setVars,
                 ccsVars>>

\* OtherAfterLoop with the remembered error kept on the client object,
\* where the two contexts share it.
OtherAfterLoopShared ==
  /\ other.pc = "after"
  /\ other' = [other EXCEPT
                 !.qres = IF err # None THEN Raise(err) ELSE ReturnNone,
                 !.pc = "done"]
  /\ UNCHANGED <<cfgVars, termVars, methVars, callVars, tchg, setVars,
                 ccsVars>>

\* Lines 117-118 in the other context.
OtherAfterLoop ==
  /\ other.pc = "after"
  /\ other' = [other EXCEPT
                 !.qres = IF other.err # None THEN Raise(other.err)
                          ELSE ReturnNone,
                 !.pc = "done"]
  /\ UNCHANGED <<cfgVars, termVars, methVars, callVars, tchg, setVars,
                 ccsVars>>

\* The other context's _query has returned or raised; its frame is gone.
OtherReturn ==
  /\ other.pc = "done"
  /\ other' = [OtherIdle EXCEPT !.qres = other.qres, !.open = other.open]
  /\ UNCHANGED <<cfgVars, termVars, methVars, callVars, tchg, setVars,
                 ccsVars>>

\* What the servers of the two contexts send.
ConcReplies == {<<"1">>, ERROR}
ConcServerTerms == {<<>>, LF}

\* Two execution contexts use one client: one through idn, the other
\* calling _query, each step of either interleaved with the other's.
NextConc ==
  \/ \E r \in (-1)..MaxRetries, f \in PlfValues : Construct(LF, r, f)
  \/ InitReturn
  \/ Call("idn", MsgIdn)
  \/ IdnReturn
  \/ ForNext
  \/ \E o \in ConnectOutcomes : Connect(o)
  \/ \E o \in SendOutcomes : Send(o)
  \/ Makefile
  \/ \E reply \in ConcReplies, st \in ConcServerTerms, closed \in BOOLEAN :
       Readline(reply, st, closed)
  \/ ReadlineReset
  \/ Rstrip
  \/ Classify
  \/ Check
  \/ Sleep
  \/ AfterLoop
  \/ OtherQuery(MsgIdn)
  \/ OtherForNext
  \/ \E o \in ConnectOutcomes : OtherConnect(o)
  \/ \E o \in SendOutcomes : OtherSend(o)
  \/ OtherMakefile
  \/ \E reply \in ConcReplies, st \in ConcServerTerms, closed \in BOOLEAN :
       OtherReadline(reply, st, closed)
  \/ OtherReadlineReset
  \/ OtherRstrip
  \/ OtherClassify
  \/ OtherCheck
  \/ OtherSleep
  \/ OtherAfterLoop
  \/ OtherReturn

SpecConc == Init /\ [][NextConc]_vars

TypeOK ==
  /\ obj \in {"new", "constructing", "ready", "failed"}
  /\ retries \in (-1)..(MaxRetries + 1)
  /\ attempt \in 0..(MaxRetries + 1)
  /\ open \in 0..1
  /\ nConn \in 0..(MaxRetries + 1)
  /\ nSleep \in 0..(MaxRetries + 1)
  /\ nWarn \in 0..(MaxRetries + 1)
  /\ spc \in {"idle", "bytes"}
  /\ cpc \in {"idle", "fw", "vr", "def", "end"}
  /\ nSets \in 0..(MaxSets + 1)
  /\ tchg \in BOOLEAN /\ parsed \in BOOLEAN

\* ----------------------------------------------------------------- claims
TransientOuts == {"refused", "reset", "timeout"}
AllOuts(S) == \A i \in DOMAIN outs : outs[i] \in S
LastOut == IF outs = <<>> THEN "none" ELSE outs[Len(outs)]

\* C1: when the server accepts the first connection and sends a reply that
\* neither begins with ERROR nor contains the terminator, followed by the
\* terminator, _query returns exactly that reply text.
C1_ReturnsExactReply ==
  ( /\ pc = "done"
    /\ ~tchg
    /\ outs = <<"reply">>
    /\ wire.term = term0
    /\ ~StartsWith(wire.reply, ERROR)
    /\ NlEnds(wire.reply, term0) = {} )
  => qres = Return(wire.reply)

\* C2: a response line that begins with ERROR, on whichever attempt it is
\* received, ends the call with RuntimeError carrying the whole response
\* line; that attempt is the last connect, and no warning or delay follows
\* it (only those of the earlier failed attempts have happened).
C2_ErrorResponseRaises ==
  (pc = "done" /\ wire.set /\ StartsWith(resp, ERROR))
  => /\ qres = Raise(Exc("RuntimeError", resp))
     /\ nConn = attempt
     /\ Len(outs) = attempt
     /\ nWarn = attempt - 1
     /\ nSleep = attempt - 1

\* C2 witness: an ERROR response on the second attempt, after a transient
\* failure of the first.
C2_Witness ==
  /\ pc = "done"
  /\ attempt = 2
  /\ wire.set
  /\ resp = ERROR \o <<"a">>
  /\ qres.exc.type = "RuntimeError"

\* C3: when every attempt is refused, the call never makes more than retries
\* connects and fails only once it has made exactly retries of them.
C3_AllRefusedOpensRetries ==
  (retries >= 1 /\ pc \notin {"none"} /\ AllOuts({"refused"}))
  => /\ nConn <= retries
     /\ pc = "done" =>
          /\ nConn = retries
          /\ Len(outs) = retries
          /\ qres = Raise(Exc("ConnectionRefusedError", <<>>))

\* C3 witness: a call with retries = 2 has failed after two refused connects.
C3_Witness ==
  /\ pc = "done"
  /\ retries = 2
  /\ outs = <<"refused", "refused">>
  /\ qres.kind = "raise"

\* C4: when every attempt is refused, exactly retries - 1 delays have been
\* waited when the failure reaches the caller.
C4_NoDelayAfterLastAttempt ==
  (retries >= 1 /\ pc = "done" /\ AllOuts({"refused"}))
  => nSleep = retries - 1

\* C5: a transient failure of the first attempt followed by a non-ERROR
\* reply on the second makes the call return that response, after exactly
\* two connects and one delay.
C5_OneRetryThenSuccess ==
  ( /\ retries >= 2
    /\ pc = "done"
    /\ Len(outs) = 2
    /\ outs[1] \in TransientOuts
    /\ outs[2] = "reply"
    /\ ~StartsWith(resp, ERROR) )
  => /\ qres = Return(resp)
     /\ nConn = 2
     /\ nSleep = 1

\* C5 witness: reset on the first attempt, the reply "1" on the second.
C5_Witness ==
  /\ pc = "done"
  /\ outs = <<"reset", "reply">>
  /\ qres = Return(<<"1">>)

\* The three ways a call may end.
EndsInSuccess ==
  qres.kind = "return" /\ ~qres.isNone /\ qres.val = resp /\ LastOut = "reply"
EndsInProtocolError ==
  qres = Raise(Exc("RuntimeError", resp)) /\ StartsWith(resp, ERROR)
EndsExhausted ==
  /\ qres.kind = "raise"
  /\ qres.exc.type \in TransientTypes
  /\ Len(outs) = retries
  /\ AllOuts(TransientOuts)

\* C6: with retries >= 1 and every attempt ending in a reply, an ERROR
\* reply, refused, reset or timeout, a finished call has ended in exactly
\* one of: success, Protocol Error, exhausted retries.
C6_ExactlyOneOutcome ==
  ( /\ retries >= 1
    /\ pc = "done"
    /\ AllOuts(TransientOuts \cup {"reply"}) )
  => /\ EndsInSuccess \/ EndsInProtocolError \/ EndsExhausted
     /\ ~(EndsInSuccess /\ EndsInProtocolError)
     /\ ~(EndsInSuccess /\ EndsExhausted)
     /\ ~(EndsInProtocolError /\ EndsExhausted)

\* C6 witness: retries exhausted by a timeout and then a reset.
C6_Witness ==
  /\ pc = "done"
  /\ retries = 2
  /\ outs = <<"timeout", "reset">>
  /\ EndsExhausted

\* C7: a call holds at most one open connection, and holds none outside
\* the part of an attempt between connect and the end of the with block;
\* in particular none when it returns or raises.
C7_ConnectionClosedOnEveryExit ==
  /\ open <= 1
  /\ pc \notin {"send", "makefile", "readline", "rstrip"} => open = 0

\* C8: every step of a call uses the terminator that was in effect when
\* the call started: the bytes appended to the payload, the framing of the
\* read, and the stripping of the line.
C8_InFlightUsesStartTerminator ==
  /\ pc \in {"makefile", "readline", "rstrip"}
       => payload = Encode(msg) \o bytes0
  /\ pc \in {"readline", "rstrip"} => nl = term0
  /\ pc = "classify" => resp = RStrip(line, term0)

\* C9: the constructor makes exactly one _query call, "plf <value>", with
\* the fields already set; construction fails with the error of that query
\* if the query fails, and yields a client only if the query returns.
C9_ConstructionOneQuery ==
  /\ (method = "__init__" /\ pc # "none")
       => /\ obj = "constructing"
          /\ nQ = 1
          /\ StartsWith(msg, <<"p", "l", "f", " ">>)
          /\ _TERMCHAR \in Terminators
          /\ _TERMCHAR_BYTES = Encode(_TERMCHAR)
          /\ retries \in (-1)..MaxRetries
  /\ obj = "failed" => (nQ = 1 /\ qres.kind = "raise" /\ ctorExc = qres.exc)
  /\ (obj = "ready" /\ method = "__init__")
       => (nQ = 1 /\ qres.kind = "return")

\* C9 witness: construction has failed with the timeout that exhausted the
\* retries of its query.
C9_Witness ==
  /\ obj = "failed"
  /\ retries = 2
  /\ ctorExc.type = "timeout"
  /\ qres = Raise(ctorExc)

\* C10: an empty line followed by the terminator makes _query return the
\* empty string on that attempt, and measure and _low_level_voltage_sweep
\* turn an empty answer into None without parsing it.
C10_EmptyReplyIsNoData ==
  /\ ( /\ pc = "done"
       /\ ~tchg
       /\ LastOut = "reply"
       /\ wire.reply = <<>>
       /\ wire.term = term0 )
       => /\ qres = Return(<<>>)
          /\ nConn = Len(outs)
          /\ nSleep = Len(outs) - 1
  /\ ( /\ pc = "none"
       /\ method \in {"measure", "_low_level_voltage_sweep"}
       /\ qres = Return(<<>>) )
       => (mres = MNone /\ ~parsed)

\* C10 witness: measure has returned None for an empty answer.
C10_Witness ==
  /\ pc = "none"
  /\ method = "measure"
  /\ qres = Return(<<>>)
  /\ mres = MNone

\* C11: a call returns a value only if its last attempt received bytes
\* ending with the terminator; a connection closed by the peer before any
\* terminator arrived is not reported as a successful reply.
C11_SuccessOnlyAfterTerminator ==
  (pc = "done" /\ qres.kind = "return" /\ ~qres.isNone) => LastOut = "reply"

\* C12: every call that fails raises either a transient network error
\* (refused, reset or timeout, and only once the retries are exhausted) or
\* a Protocol Error, whatever failed while connecting, sending or
\* receiving.
C12_OnlyTwoFailureKinds ==
  (pc = "done" /\ qres.kind = "raise")
  => \/ qres.exc.type \in TransientTypes /\ Len(outs) = retries
     \/ qres.exc.type = "RuntimeError" /\ StartsWith(qres.exc.detail, ERROR)

\* C13: an attempt is made only after transient failures of all earlier
\* attempts and while attempts remain, so a call makes at most retries
\* connects and a reply (success or ERROR) is always its last attempt.
C13_RetryOnlyAfterTransient ==
  /\ retries >= 0 => nConn <= retries
  /\ nConn \in {Len(outs), Len(outs) + 1}
  /\ nConn = Len(outs) + 1 => AllOuts(TransientOuts)
  /\ \A i \in DOMAIN outs : i < Len(outs) => outs[i] \in TransientOuts
  /\ pc = "connect" => (attempt <= retries /\ AllOuts(TransientOuts))

\* C13 witness: an ERROR response on the second attempt, after a refused
\* first one, has ended the call.
C13_Witness ==
  /\ pc = "done"
  /\ outs = <<"refused", "reply">>
  /\ nConn = 2
  /\ qres.exc.type = "RuntimeError"

\* Transient failures among the attempts made before the last allowed one.
EarlyTransients ==
  Cardinality({i \in DOMAIN outs : outs[i] \in TransientOuts /\ i < retries})

\* C14: a transient failure before the last attempt gives one warning and
\* then one delay before the next connect, one on the last attempt gives
\* no warning: retries - 1 warnings when every attempt fails transiently,
\* k - 1 warnings when attempt k succeeds.
C14_WarningsBetweenAttempts ==
  /\ pc \in {"sleep", "for", "after", "connect", "done"}
       => nWarn = EarlyTransients
  /\ pc = "sleep" => nSleep = attempt - 1
  /\ pc = "connect" => (nWarn = attempt - 1 /\ nSleep = attempt - 1)
  /\ (pc = "done" /\ retries >= 1 /\ Len(outs) = retries
        /\ AllOuts(TransientOuts))
       => nWarn = retries - 1
  /\ (pc = "done" /\ qres.kind = "return" /\ ~qres.isNone)
       => nWarn = attempt - 1

\* C14 witness: with retries = 2, a refused attempt and then a timeout have
\* produced one warning.
C14_Witness ==
  /\ pc = "done"
  /\ retries = 2
  /\ outs = <<"refused", "timeout">>
  /\ nWarn = 1

\* C15: when every attempt fails transiently, the error raised is that of
\* the final attempt.
C15_LastErrorRaised ==
  (pc = "done" /\ retries >= 1 /\ Len(outs) = retries
     /\ AllOuts(TransientOuts))
  => qres = Raise(ExcOf(outs[retries]))

\* C15 witness: refused, then timeout; the timeout is raised.
C15_Witness ==
  /\ pc = "done"
  /\ retries = 2
  /\ outs = <<"refused", "timeout">>
  /\ qres.exc.type = "timeout"

\* C17: once the constructor has set the fields, and whenever no TERMCHAR
\* set is in progress, the cached bytes are the encoding of the terminator
\* string; a call started then and not overlapped by a set sends the very
\* terminator it frames and strips with.
C17_BytesMatchTerminator ==
  /\ (obj # "new" /\ spc = "idle") => _TERMCHAR_BYTES = Encode(_TERMCHAR)
  /\ (pc \in {"readline", "rstrip"} /\ ~tchg /\ bytes0 = Encode(term0))
       => payload = Encode(msg) \o Encode(nl)

\* C17 witness: a completed set to "\r\n" has cached the bytes 13, 10.
C17_Witness ==
  /\ nSets = 1
  /\ spc = "idle"
  /\ _TERMCHAR = CRLF
  /\ _TERMCHAR_BYTES = <<13, 10>>

\* C20: with retries <= 0 a call makes no connect, waits no delay, emits no
\* warning and returns None, so construction succeeds without contacting
\* the server.
C20_NoAttemptsReturnsNone ==
  retries <= 0
  => /\ nConn = 0 /\ nSleep = 0 /\ nWarn = 0 /\ outs = <<>> /\ open = 0
     /\ pc \in {"none", "for", "after", "done"}
     /\ pc = "done" => qres = ReturnNone
     /\ obj \in {"new", "constructing", "ready"}
     /\ (obj = "ready" /\ method = "__init__") => qres = ReturnNone

\* C20 witness: a client built with retries = -1 exists.
C20_Witness ==
  /\ obj = "ready"
  /\ retries = -1
  /\ method = "__init__"
  /\ qres = ReturnNone

\* Arguments of configure_channel_settings that are not None.
ArgsGiven ==
  Len(four_wire) + Len(v_range) + Len(default)

\* A command method has been invoked and has ended.
MethodEnded ==
  /\ pc = "none"
  /\ cpc = "idle"
  /\ method \notin {"none", "__init__"}
  /\ mres # NoMRes

\* C18: every command method issues exactly one _query call per
\* invocation, configure_channel_settings included, whatever its arguments.
C18_OneQueryPerMethod ==
  /\ MethodEnded => nQ = 1
  /\ cpc = "end" => nQ = 1

\* C18 as amended: every command method other than
\* configure_channel_settings issues exactly one _query call; that method
\* issues one for each of four_wire, v_range and default that is not None,
\* in this order, none to three in all, and stops at the first that raises.
C18_OneQueryPerGivenSetting ==
  /\ (MethodEnded /\ method # "configure_channel_settings") => nQ = 1
  /\ cpc = "end" => nQ = ArgsGiven
  /\ cpc = "vr" => nQ = Len(four_wire)
  /\ cpc = "def" => nQ = Len(four_wire) + Len(v_range)
  /\ method = "configure_channel_settings" => nQ \in 0..3

\* C18 witness: configure_channel_settings with its three settings given
\* has issued three queries and is about to return.
C18_Witness ==
  /\ cpc = "end"
  /\ method = "configure_channel_settings"
  /\ ArgsGiven = 3
  /\ nQ = 3

\* C16: every _query call that has started eventually ends, by returning
\* or raising, within its bounded number of attempts.
C16_QueryTerminates ==
  (pc \notin {"none", "done"}) ~> (pc = "done")

\* C16 witness: a call has ended after using up two attempts.
C16_Witness ==
  /\ pc = "done"
  /\ retries = 2
  /\ attempt = 2
  /\ Len(outs) = 2
  /\ qres.kind = "raise"

\* What a call ends with, computed from the outcomes os of its own
\* connections and the line ln its own last connection delivered.
OwnOutcome(os, ln) ==
  IF os = <<>> THEN ReturnNone
  ELSE LET last == os[Len(os)]
           text == RStrip(ln, _TERMCHAR)
       IN IF last \in {"reply", "eof"}
          THEN (IF StartsWith(text, ERROR)
                THEN Raise(Exc("RuntimeError", text))
                ELSE Return(text))
          ELSE IF last = "illegal" THEN Raise(Exc("ValueError", <<>>))
          ELSE Raise(ExcOf(last))

\* C19: of two _query calls running concurrently on one client, each ends
\* with the value or error that the outcomes on its own connections
\* determine, counts its own attempts and holds its own connection.
C19_CallsDoNotInterfere ==
  /\ pc = "done" => (qres = OwnOutcome(outs, line) /\ attempt = Len(outs))
  /\ other.pc = "done"
       => /\ other.qres = OwnOutcome(other.outs, other.line)
          /\ other.attempt = Len(other.outs)
  /\ open \in 0..1
  /\ other.open \in 0..1

\* C19 witness: both calls are at their end together, one with a reply
\* and the other with the timeout of its second attempt.
C19_Witness ==
  /\ pc = "done"
  /\ other.pc = "done"
  /\ qres.kind = "return" /\ ~qres.isNone
  /\ outs = <<"reply">>
  /\ other.outs = <<"refused", "timeout">>
  /\ other.qres = Raise(ExcOf("timeout"))

====
